---- MODULE Spec2Model ----
(***************************************************************************)
(* The external-integration layer of the Tenant-SaaS-Platform:             *)
(*   - the cache-backed circuit breaker (apps/integrations/                *)
(*     circuit_breaker.py), with every cache read and write of call() a    *)
(*     separate step, so that concurrent calls interleave as they do       *)
(*     between workers;                                                    *)
(*   - the webhook event store and its processing (models.py,              *)
(*     webhook_handlers.py, tasks.py, views.py).                           *)
(* Time is a discrete clock; one tick is one second.                       *)
(***************************************************************************)
EXTENDS Integers, Sequences, FiniteSets, TLC

VARIABLES
    now,        \* timezone.now(), in seconds
    cache,      \* the django cache entry under circuit_breaker:<provider>
    pc,         \* per caller: where it is inside CircuitBreaker.call
    loc,        \* per caller: the values it has read from the cache
    invoked,    \* per caller: func(*args) was entered in the current call
    result,     \* per caller: how its last call ended
    run,        \* history: failing calls in a row since closed/0 (Void if disturbed)
    batch,      \* history: the failure_count the breaker last rested at, closed, and the failing calls since
    streak,     \* history: failing calls since the last successful call (Void once calls overlap or an override is made)
    trial,      \* history, per caller: the call began on an open, timed-out breaker
    openedAt,   \* history: when the breaker last went open
    overrides,  \* history: how many force_open / force_close calls were made
    forced,     \* history: the last override made ("none", "open", "closed"; "not kept")
    providerRow,\* an IntegrationProvider row named like the breaker exists
    health,     \* the IntegrationHealth record of that provider
    hwFailed,   \* history: a write of the IntegrationHealth record has raised
    events,     \* the webhook_events table: a sequence of rows, in creation order
    max_retries,\* IntegrationProvider.max_retries, per provider name
    backoff,    \* IntegrationProvider.backoff_multiplier / max_backoff_seconds, per provider name
    tasks,      \* the celery queue: the process_webhook_event tasks not yet finished
    nextTask,   \* the id the next dispatched task gets
    hist,       \* history, per row: the statuses it was saved with, in order
    processedBy,\* history, per row: the tasks that ran Process's dispatch for it
    rejected,   \* history: how many ingestions the unique constraint refused
    adminRetries, \* history: how many times the admin retry endpoint was called
    breakers,   \* the django cache, per key circuit_breaker:<name>
    provider_rows, \* the names that have an IntegrationProvider row
    api_calls,  \* the external_api_calls table: a sequence of rows, in creation order
    client,     \* per ExternalAPIClient: where its make_request call stands
    failures    \* history, per client: how many of its requests have raised

healthVars == <<providerRow, health, hwFailed>>

breakerVars ==
    <<cache, pc, loc, invoked, result, run, streak, batch, trial, openedAt,
      overrides, forced, healthVars>>

webhookVars ==
    <<events, max_retries, backoff, tasks, nextTask, hist, processedBy, rejected,
      adminRetries>>

clientVars == <<breakers, provider_rows, api_calls, client, failures>>

----------------------------------------------------------------------------
(* Bounds and program constants *)

Threshold == 2
Timeout == 2
MaxTime == 4
MaxCount == 4
MaxOverrides == 1
MaxBatch == 3
MaxCalls == 3
MaxFailures == 2
NoTime == -1
Void == 0 - 1

Callers == {1, 2}

TTL == Timeout * 2

----------------------------------------------------------------------------
(* The cache entry *)

\* no entry under the key (written: history only, the time of the cache.set)
Absent ==
    [present |-> FALSE, state |-> "closed", failure_count |-> 0,
     last_failure_time |-> NoTime, expires |-> 0, written |-> NoTime]

\* cache.set(self.cache_key, {...}, self.timeout * 2) at time t
Entry_mut(s, fc, lft, t) ==
    [present |-> TRUE, state |-> s, failure_count |-> fc,
     last_failure_time |-> lft, expires |-> t + TTL + TTL, written |-> t]

Entry(s, fc, lft, t) ==
    [present |-> TRUE, state |-> s, failure_count |-> fc,
     last_failure_time |-> lft, expires |-> t + TTL, written |-> t]

\* cache.get(self.cache_key) at time t: an entry past its expiry reads as None
cache_get_at(c, t) ==
    IF c.present /\ t < c.expires THEN c ELSE Absent

cache_get == cache_get_at(cache, now)

\* CircuitBreaker.state / failure_count / last_failure_time of what a get returned
state_of(c) ==
    IF ~c.present THEN "closed" ELSE c.state

failure_count_of(c) ==
    IF ~c.present THEN 0 ELSE c.failure_count

last_failure_time_of(c) ==
    IF ~c.present THEN NoTime ELSE c.last_failure_time

state == state_of(cache_get)

failure_count == failure_count_of(cache_get)

last_failure_time == last_failure_time_of(cache_get)

\* _should_attempt_reset(): the timeout has elapsed since last_failure_time
should_attempt_reset_mut(c, t) ==
    c.present /\ c.last_failure_time # NoTime

should_attempt_reset(c, t) ==
    /\ c.present
    /\ c.last_failure_time # NoTime
    /\ t - c.last_failure_time >= Timeout

\* _set_half_open(): the dict written, from the two property reads
half_open_entry(fc, lft, t) ==
    Entry("half_open", fc, lft, t)

\* _on_success() in half_open: cache.delete
on_success_half_open_mut(c) ==
    [c EXCEPT !.state = "closed"]

on_success_half_open(c) ==
    Absent

\* _on_success() in closed: the dict written
on_success_closed_mut(t) ==
    Entry("closed", 1, NoTime, t)

on_success_closed(t) ==
    Entry("closed", 0, NoTime, t)

\* _on_failure(): failure_count = cached_data.get('failure_count', 0) + 1
next_failure_count_mut(cd) ==
    failure_count_of(cd) + 2

next_failure_count(cd) ==
    failure_count_of(cd) + 1

\* _on_failure(): the dict written, from the cached_data read (or the default)
on_failure_mut(cd, t) ==
    LET fc == next_failure_count(cd)
        st == IF fc > Threshold THEN "open"
              ELSE IF state_of(cd) = "half_open" THEN "open"
              ELSE state_of(cd)
    IN  Entry(st, fc, t, t)

on_failure(cd, t) ==
    LET fc == next_failure_count(cd)
        st == IF fc >= Threshold THEN "open"
              ELSE IF state_of(cd) = "half_open" THEN "open"
              ELSE state_of(cd)
    IN  Entry(st, fc, t, t)

\* force_open(): the dict written
force_open_entry_mut(t) ==
    Entry("open", Threshold - 1, t, t)

force_open_entry(t) ==
    Entry("open", Threshold, t, t)

\* _on_failure(): the branches that set 'open' call _update_health_record
on_failure_opens(cd) ==
    \/ next_failure_count(cd) >= Threshold
    \/ state_of(cd) = "half_open"

----------------------------------------------------------------------------
(* The IntegrationHealth record: _update_health_record *)

NoHealth ==
    [exists |-> FALSE, is_healthy |-> TRUE, circuit_breaker_state |-> "closed",
     consecutive_failures |-> 0]

\* get_or_create / save: nothing is written without a provider row (row) or
\* when the database raises (~ok).  Of the fields written, is_healthy,
\* circuit_breaker_state and consecutive_failures (fc, the failure_count read
\* from the cache when the record is written) are kept; last_check_at is not
\* stored in the model
update_health_record(h, row, circuit_state, fc, ok) ==
    IF row /\ ok
    THEN [exists |-> TRUE, is_healthy |-> (circuit_state = "closed"),
          circuit_breaker_state |-> circuit_state,
          consecutive_failures |-> fc]
    ELSE h

\* whether _update_health_record lets the exception out: its whole body is in
\* try ... except Exception: logger.error
health_write_raises_mut(row, ok) ==
    row /\ ~ok

health_write_raises(row, ok) ==
    FALSE

----------------------------------------------------------------------------
(* History bookkeeping (no effect on the program's state) *)

AllIdle(f) ==
    \A q \in Callers : f[q] = "idle"

Alone(p) ==
    \A q \in Callers \ {p} : pc[q] = "idle"

\* a run of failing calls starts afresh whenever nothing is in flight and the
\* breaker reads closed with no failures
Settle(r, c, t, f) ==
    IF /\ AllIdle(f)
       /\ state_of(cache_get_at(c, t)) = "closed"
       /\ failure_count_of(cache_get_at(c, t)) = 0
    THEN 0 ELSE r

\* a history that is not kept stays so: off is its value then
Kept(h, off, v) ==
    IF h = off THEN off ELSE v

BatchOff == [c |-> Void, k |-> Void]

ForcedOff == "not kept"

\* no failure_count to count on from: a call was in flight, or the breaker
\* was not closed, when a success, an override or the expiry of the entry
\* last changed what is cached (or more than MaxBatch calls have failed since)
NoBatch == [c |-> Void, k |-> 0]

\* after such a change: failing calls count on from the failure_count cached
NewBatch(c, t, f) ==
    IF AllIdle(f) /\ state_of(cache_get_at(c, t)) = "closed"
    THEN [c |-> failure_count_of(cache_get_at(c, t)), k |-> 0]
    ELSE NoBatch

\* a call has returned successfully: the count of failing calls since then
\* starts again, unless calls have overlapped
AfterSuccess(k, f) ==
    IF k = Void \/ ~AllIdle(f) THEN Void ELSE 0

NoTrial == [q \in Callers |-> "none"]

LocInit == [fc |-> 0, lft |-> NoTime, cd |-> Absent]

Return(p, res) ==
    /\ pc' = [pc EXCEPT ![p] = "idle"]
    /\ result' = [result EXCEPT ![p] = res]
    /\ loc' = [loc EXCEPT ![p] = LocInit]

----------------------------------------------------------------------------
(* The webhook event store: models.py *)

DefaultMaxRetries == 3
BackoffMultiplier == 2
MaxBackoffSeconds == 300
TaskMaxRetries == 3
RetentionDays == 30

MaxEvents == 2
MaxTasks == 2
MaxClock == 9
MaxDay == 32
MaxRejected == 1
MaxAdminRetries == 1

Providers == {"user_service", "payment_service", "communication_service"}

RetryChoices == {0, DefaultMaxRetries}

EventIds == {"evt_1", "evt_2"}

\* the event types each provider's webhook handler routes (webhook_handlers.py)
HandledTypes(provider) ==
    CASE provider = "user_service" ->
           {"user.created", "user.updated", "user.deleted", "user.activated",
            "user.deactivated"}
      [] provider = "payment_service" ->
           {"subscription.created", "subscription.updated",
            "subscription.canceled", "payment.succeeded", "payment.failed"}
      [] provider = "communication_service" ->
           {"message.delivered", "message.bounced", "message.clicked",
            "message.opened"}
      [] OTHER -> {}

\* the type-specific handlers that look a tenant or a user up and raise
\* ValueError when there is none
LookupTypes ==
    {"user.created", "user.updated", "user.deleted", "user.activated",
     "user.deactivated", "subscription.created", "subscription.updated",
     "subscription.canceled"}

\* the payloads the model posts: per endpoint one routed type (with the looked-up
\* record found or not) and one type the endpoint does not route
Payloads ==
    {[provider |-> "user_service", event_type |-> "user.updated", found |-> TRUE],
     [provider |-> "user_service", event_type |-> "user.updated", found |-> FALSE],
     [provider |-> "user_service", event_type |-> "order.shipped", found |-> FALSE],
     [provider |-> "payment_service", event_type |-> "subscription.updated", found |-> FALSE]}

\* the routing and the type-specific handler of handle_*_webhook: "ok", or the
\* text of the ValueError raised
HandlerOutcome(row) ==
    IF row.event_type \notin HandledTypes(row.provider) THEN "Unknown event type"
    ELSE IF row.event_type \in LookupTypes /\ ~row.found THEN "not found"
    ELSE "ok"

\* WebhookEvent.objects.create(...): the row as created
NewEvent(payload, eid) ==
    [provider |-> payload.provider, event_type |-> payload.event_type,
     found |-> payload.found, event_id |-> eid,
     status |-> "pending", retry_count |-> 0, error_message |-> "",
     processed_at |-> NoTime, next_retry_at |-> NoTime,
     stage |-> "to_process", response |-> "none", delay |-> 0,
     admin_response |-> "none"]

\* event_id = models.CharField(max_length=100, unique=True)
event_id_free_mut(rows, eid) ==
    TRUE

event_id_free(rows, eid) ==
    \A i \in 1..Len(rows) : rows[i].event_id # eid

mark_processing(ev) ==
    [ev EXCEPT !.status = "processing"]

mark_completed(ev, t) ==
    [ev EXCEPT !.status = "completed", !.processed_at = t]

mark_failed(ev, error_message, t) ==
    [ev EXCEPT !.status = "failed", !.error_message = error_message,
               !.processed_at = t]

RECURSIVE Pow(_, _)
Pow(b, n) ==
    IF n = 0 THEN 1 ELSE b * Pow(b, n - 1)

Min(a, b) ==
    IF a <= b THEN a ELSE b

\* the retry policy of IntegrationProvider's field defaults
DefaultBackoff ==
    [multiplier |-> BackoffMultiplier, max_backoff_seconds |-> MaxBackoffSeconds]

\* min(self.provider.backoff_multiplier ** self.retry_count,
\*     self.provider.max_backoff_seconds), for retry_count k
backoff_seconds_mut(policy, k) ==
    Min(Pow(policy.multiplier, k - 1), policy.max_backoff_seconds)

backoff_seconds(policy, k) ==
    Min(Pow(policy.multiplier, k), policy.max_backoff_seconds)

\* WebhookEvent.schedule_retry(): the event as saved, and the value returned
\* (delay: history only, the backoff_seconds of this call)
schedule_retry_mut(ev, maxr, t) ==
    IF ev.retry_count <= maxr
    THEN [ev |-> [ev EXCEPT !.retry_count = ev.retry_count + 1,
                            !.status = "retry",
                            !.next_retry_at =
                                t + backoff_seconds(backoff[ev.provider],
                                                    ev.retry_count + 1),
                            !.delay = backoff_seconds(backoff[ev.provider],
                                                      ev.retry_count + 1)],
          ok |-> TRUE]
    ELSE [ev |-> mark_failed(ev, "Max retries exceeded", t), ok |-> FALSE]

schedule_retry(ev, maxr, t) ==
    IF ev.retry_count < maxr
    THEN [ev |-> [ev EXCEPT !.retry_count = ev.retry_count + 1,
                            !.status = "retry",
                            !.next_retry_at =
                                t + backoff_seconds(backoff[ev.provider],
                                                    ev.retry_count + 1),
                            !.delay = backoff_seconds(backoff[ev.provider],
                                                      ev.retry_count + 1)],
          ok |-> TRUE]
    ELSE [ev |-> mark_failed(ev, "Max retries exceeded", t), ok |-> FALSE]

\* the statuses a row was saved with: one entry per change
Seen(ev) ==
    [status |-> ev.status, retry_count |-> ev.retry_count]

Record(h, ev) ==
    IF Len(h) > 0 /\ h[Len(h)] = Seen(ev) THEN h ELSE Append(h, Seen(ev))

Rows == 1..Len(events)

\* nothing of the webhook side has happened
WebhookQuiet ==
    /\ events = <<>>
    /\ max_retries = [p \in Providers |-> DefaultMaxRetries]
    /\ backoff = [p \in Providers |-> DefaultBackoff]
    /\ tasks = {}
    /\ nextTask = 1
    /\ hist = <<>>
    /\ processedBy = <<>>
    /\ rejected = 0
    /\ adminRetries = 0

----------------------------------------------------------------------------
(* Outbound calls: external_apis.ExternalAPIClient *)

\* the clients that make requests, named by their provider
ClientProviders == {"user_service", "payment_service"}

\* @circuit_breaker(provider_name='external_api', ...) on make_request: the
\* one CircuitBreakerDecorator, built when the class body is executed
DecoratorKey == "external_api"

\* the breaker that stands before a client's make_request
GateKey(c) == DecoratorKey

\* ExternalAPIClient.__init__: self.circuit_breaker = CircuitBreaker(provider_name)
OwnKey(c) == c

BreakerKeys == {DecoratorKey} \cup ClientProviders

NoCall == 0

\* ExternalAPICall.objects.create(...): the row as created (writes: history
\* only, the statuses the row was saved with, in order)
NewCall(c, t) ==
    [provider |-> c, status |-> "pending", started_at |-> t,
     completed_at |-> NoTime, duration_ms |-> NoTime, error_message |-> "",
     writes |-> <<"pending">>]

call_mark_in_progress(row) ==
    [row EXCEPT !.status = "in_progress",
                !.writes = Append(@, "in_progress")]

call_mark_completed(row, t) ==
    [row EXCEPT !.status = "completed", !.completed_at = t,
                !.duration_ms = (t - row.started_at) * 1000,
                !.writes = Append(@, "completed")]

call_mark_failed(row, error_message, t) ==
    [row EXCEPT !.status = "failed", !.completed_at = t,
                !.duration_ms = (t - row.started_at) * 1000,
                !.error_message = error_message,
                !.writes = Append(@, "failed")]

\* make_request after the request has returned: the try's mark_completed, or
\* the except's mark_failed(str(e))
finish_request_mut(row, outcome, t) ==
    IF outcome = "ok"
    THEN call_mark_failed(call_mark_completed(row, t), "", t)
    ELSE call_mark_failed(row, outcome, t)

finish_request(row, outcome, t) ==
    IF outcome = "ok"
    THEN call_mark_completed(row, t)
    ELSE call_mark_failed(row, outcome, t)

\* CircuitBreaker.call up to func: admitted or not, and the entry left cached
gate(c, t) ==
    LET cd == cache_get_at(c, t)
    IN  IF state_of(cd) = "open"
        THEN IF should_attempt_reset(cd, t)
             THEN [admit |-> TRUE,
                   entry |-> half_open_entry(failure_count_of(cd),
                                             last_failure_time_of(cd), t)]
             ELSE [admit |-> FALSE, entry |-> c]
        ELSE [admit |-> TRUE, entry |-> c]

\* _on_success() / _on_failure() on the entry stored under a key
after_success(c, t) ==
    LET cd == cache_get_at(c, t)
    IN  IF state_of(cd) = "half_open" THEN on_success_half_open(c)
        ELSE IF state_of(cd) = "closed" THEN on_success_closed(t)
        ELSE c

after_failure(c, t) ==
    on_failure(cache_get_at(c, t), t)

IdleClient == [pc |-> "idle", call |-> NoCall, result |-> "none"]

\* nothing of the client side has happened
ClientQuiet ==
    /\ breakers = [k \in BreakerKeys |-> Absent]
    /\ provider_rows = ClientProviders
    /\ api_calls = <<>>
    /\ client = [c \in ClientProviders |-> IdleClient]
    /\ failures = [c \in ClientProviders |-> 0]

\* no call in progress, nothing cached, no health record
BreakerIdle ==
    /\ cache = Absent
    /\ pc = [q \in Callers |-> "idle"]
    /\ loc = [q \in Callers |-> LocInit]
    /\ invoked = [q \in Callers |-> FALSE]
    /\ result = [q \in Callers |-> "none"]
    /\ run = 0
    /\ trial = NoTrial
    /\ openedAt = NoTime
    /\ overrides = 0
    /\ health = NoHealth
    /\ hwFailed = FALSE

\* the histories streak, batch and forced are kept from the start
HistoryKept ==
    /\ streak = 0
    /\ batch = [c |-> 0, k |-> 0]
    /\ forced = "none"

\* the histories streak, batch and forced are not kept: the specification's
\* properties do not read them
HistoryOff ==
    /\ streak = Void
    /\ batch = BatchOff
    /\ forced = ForcedOff

\* nothing of the breaker side has happened; no IntegrationProvider row carries
\* the breaker's name (as for 'external_api', which is no PROVIDER_CHOICES name)
BreakerQuiet ==
    /\ BreakerIdle
    /\ HistoryKept
    /\ providerRow = FALSE

\* _update_health_record(circuit_state) as a step of an action: the write may
\* raise (ok = FALSE)
HealthWrite(circuit_state, fc, ok) ==
    /\ health' = update_health_record(health, providerRow, circuit_state, fc, ok)
    /\ hwFailed' = (hwFailed \/ (providerRow /\ ~ok))
    /\ UNCHANGED providerRow

----------------------------------------------------------------------------
(* CircuitBreaker.call, one cache operation per step *)

\* line 66: if self.state == 'open'
CallBegin(p) ==
    /\ pc[p] = "idle"
    /\ pc' = [pc EXCEPT ![p] = IF state = "open" THEN "reset" ELSE "run"]
    /\ invoked' = [invoked EXCEPT ![p] = FALSE]
    /\ result' = [result EXCEPT ![p] = "none"]
    /\ run' = IF Alone(p) THEN run ELSE Void
    /\ streak' = IF Alone(p) THEN streak ELSE Void
    /\ UNCHANGED batch
    /\ trial' = [q \in Callers |->
                    IF q # p \/ ~Alone(p) THEN "none"
                    ELSE IF state = "open" /\ now - last_failure_time >= Timeout
                         THEN "probe"
                    ELSE IF openedAt # NoTime /\ now - openedAt >= Timeout
                         THEN "late"
                    ELSE "none"]
    /\ UNCHANGED <<now, cache, loc, openedAt, overrides, forced>>
    /\ UNCHANGED <<webhookVars, clientVars>>
    /\ UNCHANGED healthVars

\* lines 67-70: _should_attempt_reset(), else raise CircuitBreakerOpenError
ShouldAttemptReset(p) ==
    /\ pc[p] = "reset"
    /\ IF should_attempt_reset(cache_get, now)
       THEN /\ pc' = [pc EXCEPT ![p] = "sho_fc"]
            /\ UNCHANGED <<result, loc>>
       ELSE Return(p, "CircuitOpenError")
    /\ UNCHANGED <<now, cache, invoked, run, streak, batch, trial, openedAt, overrides, forced>>
    /\ UNCHANGED <<webhookVars, clientVars>>
    /\ UNCHANGED healthVars

\* line 105: 'failure_count': self.failure_count
SetHalfOpenReadCount(p) ==
    /\ pc[p] = "sho_fc"
    /\ loc' = [loc EXCEPT ![p].fc = failure_count]
    /\ pc' = [pc EXCEPT ![p] = "sho_lft"]
    /\ UNCHANGED <<now, cache, invoked, result, run, streak, batch, trial, openedAt, overrides, forced>>
    /\ UNCHANGED <<webhookVars, clientVars>>
    /\ UNCHANGED healthVars

\* line 106: 'last_failure_time': self.last_failure_time
SetHalfOpenReadTime(p) ==
    /\ pc[p] = "sho_lft"
    /\ loc' = [loc EXCEPT ![p].lft = last_failure_time]
    /\ pc' = [pc EXCEPT ![p] = "sho_set"]
    /\ UNCHANGED <<now, cache, invoked, result, run, streak, batch, trial, openedAt, overrides, forced>>
    /\ UNCHANGED <<webhookVars, clientVars>>
    /\ UNCHANGED healthVars

\* lines 103-110: cache.set(... 'half_open' ..., self.timeout * 2), then
\* _update_health_record('half_open')
SetHalfOpenWrite(p) ==
    /\ pc[p] = "sho_set"
    /\ cache' = half_open_entry(loc[p].fc, loc[p].lft, now)
    /\ \E ok \in BOOLEAN :
          /\ HealthWrite("half_open", failure_count_of(cache_get_at(cache', now)), ok)
          /\ IF health_write_raises(providerRow, ok)
             THEN Return(p, "HealthError")
             ELSE /\ pc' = [pc EXCEPT ![p] = "run"]
                  /\ loc' = [loc EXCEPT ![p] = LocInit]
                  /\ UNCHANGED result
    /\ UNCHANGED <<now, invoked, run, streak, batch, trial, openedAt, overrides, forced>>
    /\ UNCHANGED <<webhookVars, clientVars>>

\* line 73: result = func(*args, **kwargs), which returns or raises
Operation(p) ==
    /\ pc[p] = "run"
    /\ invoked' = [invoked EXCEPT ![p] = TRUE]
    /\ \E ok \in BOOLEAN :
          pc' = [pc EXCEPT ![p] = IF ok THEN "os1" ELSE "of1"]
    /\ UNCHANGED <<now, cache, loc, result, run, streak, batch, trial, openedAt, overrides, forced>>
    /\ UNCHANGED <<webhookVars, clientVars>>
    /\ UNCHANGED healthVars

\* line 114: if self.state == 'half_open'
OnSuccessRead1(p) ==
    /\ pc[p] = "os1"
    /\ pc' = [pc EXCEPT ![p] = IF state = "half_open" THEN "os_del" ELSE "os2"]
    /\ UNCHANGED <<now, cache, loc, invoked, result, run, streak, batch, trial, openedAt, overrides, forced>>
    /\ UNCHANGED <<webhookVars, clientVars>>
    /\ UNCHANGED healthVars

\* lines 116-117: cache.delete(self.cache_key), _update_health_record('closed')
OnSuccessDelete(p) ==
    /\ pc[p] = "os_del"
    /\ cache' = on_success_half_open(cache)
    /\ \E ok \in BOOLEAN :
          /\ HealthWrite("closed", failure_count_of(cache_get_at(cache', now)), ok)
          /\ IF health_write_raises(providerRow, ok)
             THEN Return(p, "HealthError")
             ELSE Return(p, "ok")
    /\ openedAt' = NoTime
    /\ run' = Settle(Void, cache', now, pc')
    /\ streak' = AfterSuccess(streak, pc')
    /\ batch' = Kept(batch, BatchOff, NewBatch(cache', now, pc'))
    /\ UNCHANGED <<now, invoked, trial, overrides, forced>>
    /\ UNCHANGED <<webhookVars, clientVars>>

\* line 118: elif self.state == 'closed'
OnSuccessRead2(p) ==
    /\ pc[p] = "os2"
    /\ IF state = "closed"
       THEN /\ pc' = [pc EXCEPT ![p] = "os_set"]
            /\ UNCHANGED <<result, loc, run, streak, batch>>
       ELSE /\ Return(p, "ok")
            /\ run' = Settle(Void, cache, now, pc')
            /\ streak' = AfterSuccess(streak, pc')
            /\ batch' = Kept(batch, BatchOff, NewBatch(cache, now, pc'))
    /\ UNCHANGED <<now, cache, invoked, trial, openedAt, overrides, forced>>
    /\ UNCHANGED <<webhookVars, clientVars>>
    /\ UNCHANGED healthVars

\* lines 120-124: cache.set(... 'closed', 0, None ...)
OnSuccessSet(p) ==
    /\ pc[p] = "os_set"
    /\ cache' = on_success_closed(now)
    /\ Return(p, "ok")
    /\ openedAt' = NoTime
    /\ run' = Settle(Void, cache', now, pc')
    /\ streak' = AfterSuccess(streak, pc')
    /\ batch' = Kept(batch, BatchOff, NewBatch(cache', now, pc'))
    /\ UNCHANGED <<now, invoked, trial, overrides, forced>>
    /\ UNCHANGED <<webhookVars, clientVars>>
    /\ UNCHANGED healthVars

\* lines 128-132: cached_data = cache.get(self.cache_key) or {closed, 0, None}
OnFailureRead(p) ==
    /\ pc[p] = "of1"
    /\ loc' = [loc EXCEPT ![p].cd = cache_get]
    /\ pc' = [pc EXCEPT ![p] = "of2"]
    /\ UNCHANGED <<now, cache, invoked, result, run, streak, batch, trial, openedAt, overrides, forced>>
    /\ UNCHANGED <<webhookVars, clientVars>>
    /\ UNCHANGED healthVars

\* lines 134-144 and 78: count, stamp, open if due (telling the health record
\* first, with the failure_count still cached), cache.set, raise e
OnFailureWrite(p) ==
    /\ pc[p] = "of2"
    /\ failure_count_of(loc[p].cd) < MaxCount
    /\ \E ok \in BOOLEAN :
          /\ IF on_failure_opens(loc[p].cd)
             THEN HealthWrite("open", failure_count, ok)
             ELSE UNCHANGED healthVars
          /\ IF on_failure_opens(loc[p].cd) /\ health_write_raises(providerRow, ok)
             THEN /\ Return(p, "HealthError")
                  /\ UNCHANGED <<cache, openedAt>>
                  /\ run' = Void
                  /\ streak' = Void
                  /\ batch' = Kept(batch, BatchOff, NoBatch)
             ELSE /\ cache' = on_failure(loc[p].cd, now)
                  /\ Return(p, "raised")
                  /\ openedAt' = IF cache'.state = "open" THEN now ELSE NoTime
                  /\ run' = IF run = Void THEN Void ELSE run + 1
                  /\ streak' = IF streak = Void THEN Void ELSE streak + 1
                  /\ batch' = IF batch = BatchOff THEN BatchOff
                              ELSE IF batch = NoBatch
                              THEN NewBatch(cache', now, pc')
                              ELSE IF batch.k < MaxBatch
                              THEN [batch EXCEPT !.k = @ + 1]
                              ELSE NoBatch
    /\ UNCHANGED <<now, invoked, trial, overrides, forced>>
    /\ UNCHANGED <<webhookVars, clientVars>>

\* force_open()
ForceOpen ==
    /\ overrides < MaxOverrides
    /\ overrides' = overrides + 1
    /\ forced' = Kept(forced, ForcedOff, "open")
    /\ cache' = force_open_entry(now)
    /\ \E ok \in BOOLEAN :
          HealthWrite("open", failure_count_of(cache_get_at(cache', now)), ok)
    /\ openedAt' = now
    /\ run' = Void
    /\ streak' = Void
    /\ batch' = Kept(batch, BatchOff, NewBatch(cache', now, pc))
    /\ trial' = NoTrial
    /\ UNCHANGED <<now, pc, loc, invoked, result>>
    /\ UNCHANGED <<webhookVars, clientVars>>

\* force_close()
ForceClose ==
    /\ overrides < MaxOverrides
    /\ overrides' = overrides + 1
    /\ forced' = Kept(forced, ForcedOff, "closed")
    /\ cache' = Absent
    /\ \E ok \in BOOLEAN :
          HealthWrite("closed", failure_count_of(cache_get_at(cache', now)), ok)
    /\ openedAt' = NoTime
    /\ run' = Settle(Void, Absent, now, pc)
    /\ streak' = Void
    /\ batch' = Kept(batch, BatchOff, NewBatch(cache', now, pc))
    /\ trial' = NoTrial
    /\ UNCHANGED <<now, pc, loc, invoked, result>>
    /\ UNCHANGED <<webhookVars, clientVars>>

\* a second passes; a cache entry whose expiry is reached is gone
Expiring ==
    cache.present /\ now < cache.expires /\ now + 1 >= cache.expires

BreakerTick ==
    /\ now < MaxTime
    /\ now' = now + 1
    /\ run' = Settle(IF Expiring THEN Void ELSE run, cache, now + 1, pc)
    /\ UNCHANGED streak
    /\ batch' = IF Expiring
                THEN Kept(batch, BatchOff, NewBatch(cache, now + 1, pc))
                ELSE batch
    /\ trial' = IF Expiring
                THEN NoTrial
                ELSE trial
    /\ UNCHANGED <<cache, pc, loc, invoked, result, openedAt, overrides, forced>>
    /\ UNCHANGED <<webhookVars, clientVars>>
    /\ UNCHANGED healthVars

BreakerInit ==
    /\ now = 0
    /\ BreakerQuiet
    /\ WebhookQuiet
    /\ ClientQuiet

BreakerNext ==
    \/ \E p \in Callers : CallBegin(p)
    \/ \E p \in Callers : ShouldAttemptReset(p)
    \/ \E p \in Callers : SetHalfOpenReadCount(p)
    \/ \E p \in Callers : SetHalfOpenReadTime(p)
    \/ \E p \in Callers : SetHalfOpenWrite(p)
    \/ \E p \in Callers : Operation(p)
    \/ \E p \in Callers : OnSuccessRead1(p)
    \/ \E p \in Callers : OnSuccessDelete(p)
    \/ \E p \in Callers : OnSuccessRead2(p)
    \/ \E p \in Callers : OnSuccessSet(p)
    \/ \E p \in Callers : OnFailureRead(p)
    \/ \E p \in Callers : OnFailureWrite(p)
    \/ ForceOpen
    \/ ForceClose
    \/ BreakerTick

vars == <<now, breakerVars, webhookVars, clientVars>>

SpecBreaker == BreakerInit /\ [][BreakerNext]_vars

\* the same breaker, named like a provider that may have its row
HealthInit ==
    /\ now = 0
    /\ BreakerIdle
    /\ HistoryOff
    /\ providerRow \in BOOLEAN
    /\ WebhookQuiet
    /\ ClientQuiet

SpecHealth == HealthInit /\ [][BreakerNext]_vars

----------------------------------------------------------------------------
(* Inbound webhooks: views.*WebhookView.post -> handle_*_webhook(event_data,  *)
(* request), one save per step; the row's stage is where its request stands  *)

Save(i, ev) ==
    /\ events' = [events EXCEPT ![i] = ev]
    /\ hist' = [hist EXCEPT ![i] = Record(@, ev)]

\* webhook_handlers.py lines 13-23: WebhookEvent.objects.create(...); on a
\* duplicate event_id the insert raises IntegrityError, outside the handler's
\* try, and the view answers 500.  Exploration is cut to two shapes: a store
\* of up to MaxEvents events with no task ever queued, and a store of one
\* event with up to MaxTasks tasks (see WebhookNext)
Ingest(payload, eid) ==
    /\ IF event_id_free(events, eid)
       THEN /\ Len(events) < MaxEvents
            /\ events # <<>> => nextTask = 1
            /\ events' = Append(events, NewEvent(payload, eid))
            /\ hist' = Append(hist, <<Seen(NewEvent(payload, eid))>>)
            /\ processedBy' = Append(processedBy, {})
            /\ UNCHANGED rejected
       ELSE /\ rejected < MaxRejected
            /\ rejected' = rejected + 1
            /\ UNCHANGED <<events, hist, processedBy>>
    /\ UNCHANGED <<now, max_retries, backoff, tasks, nextTask, adminRetries>>
    /\ UNCHANGED <<breakerVars, clientVars>>

\* line 26: webhook_event.mark_processing()
MarkProcessing(i) ==
    /\ events[i].stage = "to_process"
    /\ Save(i, [mark_processing(events[i]) EXCEPT !.stage = "to_handle"])
    /\ UNCHANGED <<now, max_retries, backoff, tasks, nextTask, processedBy, rejected,
                   adminRetries>>
    /\ UNCHANGED <<breakerVars, clientVars>>

\* lines 28-49: route on event_type, run the handler; mark_completed and
\* return success, or (except Exception) mark_failed(str(e))
Handle(i) ==
    /\ events[i].stage = "to_handle"
    /\ IF HandlerOutcome(events[i]) = "ok"
       THEN Save(i, [mark_completed(events[i], now) EXCEPT
                        !.stage = "done", !.response = "success"])
       ELSE Save(i, [mark_failed(events[i], HandlerOutcome(events[i]), now) EXCEPT
                        !.stage = "to_schedule"])
    /\ UNCHANGED <<now, max_retries, backoff, tasks, nextTask, processedBy, rejected,
                   adminRetries>>
    /\ UNCHANGED <<breakerVars, clientVars>>

\* lines 52-55: the status returned after schedule_retry() has returned ok
retry_response_mut(ok) ==
    IF ok THEN "failed" ELSE "retry_scheduled"

retry_response(ok) ==
    IF ok THEN "retry_scheduled" ELSE "failed"

\* lines 52-55: if webhook_event.schedule_retry(): retry_scheduled else failed
ScheduleRetry(i) ==
    /\ events[i].stage = "to_schedule"
    /\ LET r == schedule_retry(events[i], max_retries[events[i].provider], now)
       IN  Save(i, [r.ev EXCEPT !.stage = "done",
                                !.response = retry_response(r.ok)])
    /\ UNCHANGED <<now, max_retries, backoff, tasks, nextTask, processedBy, rejected,
                   adminRetries>>
    /\ UNCHANGED <<breakerVars, clientVars>>

\* views.py lines 46-74, WebhookEventViewSet.retry: the event as it is left
\* (admin_response: history only, what the view answered)
admin_retry_mut(ev) ==
    IF ev.status \in {"failed", "retry"}
    THEN [ev EXCEPT !.status = "pending", !.retry_count = 0,
                    !.error_message = "", !.admin_response = "queued"]
    ELSE [ev EXCEPT !.admin_response = "error"]

admin_retry(ev) ==
    IF ev.status = "failed"
    THEN [ev EXCEPT !.status = "pending", !.retry_count = 0,
                    !.error_message = "", !.admin_response = "queued"]
    ELSE [ev EXCEPT !.admin_response = "error"]

\* one POST to the retry endpoint of event i
AdminRetry(i) ==
    /\ adminRetries < MaxAdminRetries
    /\ adminRetries' = adminRetries + 1
    /\ Save(i, admin_retry(events[i]))
    /\ UNCHANGED <<now, max_retries, backoff, tasks, nextTask, processedBy, rejected>>
    /\ UNCHANGED <<breakerVars, clientVars>>

----------------------------------------------------------------------------
(* The celery tasks: tasks.py *)

Rank(S, i) ==
    Cardinality({j \in S : j < i})

\* process_webhook_event.delay(str(event.id)) for each event of S
Dispatch(S, origin) ==
    /\ S # {}
    /\ nextTask + Cardinality(S) - 1 <= MaxTasks
    /\ tasks' = tasks \cup
          {[id |-> nextTask + Rank(S, i), event |-> i, origin |-> origin,
            retries |-> 0, eta |-> now] : i \in S}
    /\ nextTask' = nextTask + Cardinality(S)

\* WebhookEvent.objects.filter(status='retry', next_retry_at__lte=now)
due_for_retry_mut(row, t) ==
    row.status \in {"retry", "failed"} /\ row.next_retry_at <= t

due_for_retry(row, t) ==
    row.status = "retry" /\ row.next_retry_at <= t

\* retry_failed_webhooks()
RetryFailedWebhooks ==
    /\ Dispatch({i \in Rows : due_for_retry(events[i], now)}, "retry")
    /\ UNCHANGED <<now, events, max_retries, backoff, hist, processedBy, rejected,
                   adminRetries>>
    /\ UNCHANGED <<breakerVars, clientVars>>

\* the providers that have a periodic task over their pending events:
\* process_payment_webhooks and process_user_webhooks
PendingSweeps == {"payment_service", "user_service"}

\* WebhookEvent.objects.filter(provider__name=provider, status='pending')
pending_selected(row, provider) ==
    row.provider = provider /\ row.status = "pending"

\* process_payment_webhooks() / process_user_webhooks()
ProcessPendingWebhooks(provider) ==
    /\ Dispatch({i \in Rows : pending_selected(events[i], provider)}, "pending")
    /\ UNCHANGED <<now, events, max_retries, backoff, hist, processedBy, rejected,
                   adminRetries>>
    /\ UNCHANGED <<breakerVars, clientVars>>

\* handle_*_webhook(event.data, None), as process_webhook_event calls it: the
\* arguments of WebhookEvent.objects.create are evaluated first, and
\* request.META on None raises AttributeError; no row is created and no
\* type-specific handler is reached
HandleWithoutRequest(row) ==
    "AttributeError"

\* lines 20-25: the if / elif chain over event.provider.name
known_provider_mut(row) ==
    TRUE

known_provider(row) ==
    row.provider \in Providers

\* line 36: if self.request.retries < self.max_retries
task_retries_left_mut(retries) ==
    TRUE

task_retries_left(retries) ==
    retries < TaskMaxRetries

\* line 37: countdown = 2 ** self.request.retries
task_countdown_mut(retries) ==
    Pow(2, retries + 1)

task_countdown(retries) ==
    Pow(2, retries)

\* lines 41-45: the event is read again and marked failed
give_up_mut(row, t) ==
    row

give_up(row, t) ==
    mark_failed(row,
        "Max retries exceeded: 'NoneType' object has no attribute 'META'", t)

\* one execution of process_webhook_event(self, event_id)
RunTask(t) ==
    /\ t \in tasks
    /\ t.eta <= now
    /\ LET row == events[t.event]
       IN  IF known_provider(row)
           THEN /\ processedBy' = [processedBy EXCEPT ![t.event] =
                                      @ \cup {[id |-> t.id, origin |-> t.origin]}]
                /\ IF HandleWithoutRequest(row) = "ok"
                   THEN /\ tasks' = tasks \ {t}
                        /\ UNCHANGED <<events, hist>>
                   ELSE IF task_retries_left(t.retries)
                   THEN /\ tasks' = (tasks \ {t}) \cup
                              {[t EXCEPT !.retries = t.retries + 1,
                                         !.eta = now + task_countdown(t.retries)]}
                        /\ UNCHANGED <<events, hist>>
                   ELSE /\ tasks' = tasks \ {t}
                        /\ Save(t.event, give_up(row, now))
           ELSE /\ tasks' = tasks \ {t}
                /\ Save(t.event, mark_failed(row, "Unknown provider", now))
                /\ UNCHANGED processedBy
    /\ UNCHANGED <<now, max_retries, backoff, nextTask, rejected, adminRetries>>
    /\ UNCHANGED <<breakerVars, clientVars>>

\* outside the integration layer: the tenant or user that an event's data
\* names is created after the event was put in status retry, so that the
\* type-specific handler's lookup would now find it
LookupAppears(i) ==
    /\ events[i].status = "retry"
    /\ events[i].event_type \in LookupTypes
    /\ ~events[i].found
    /\ events' = [events EXCEPT ![i].found = TRUE]
    /\ UNCHANGED <<now, max_retries, backoff, tasks, nextTask, hist, processedBy,
                   rejected, adminRetries>>
    /\ UNCHANGED <<breakerVars, clientVars>>

\* the instants at which something becomes due: a queued task's eta, the
\* next_retry_at of an event waiting in status retry
Deadlines ==
    {t.eta : t \in tasks} \cup
    {events[i].next_retry_at : i \in {j \in Rows : events[j].status = "retry"}}

\* time passes until the next such instant
WebhookTick ==
    /\ \E d \in Deadlines :
          /\ d > now
          /\ d <= MaxClock
          /\ \A e \in Deadlines : e > now => d <= e
          /\ now' = d
    /\ UNCHANGED <<webhookVars, clientVars>>
    /\ UNCHANGED <<breakerVars, clientVars>>

WebhookInit ==
    /\ now = 0
    /\ BreakerQuiet
    /\ ClientQuiet
    /\ events = <<>>
    /\ \E m \in RetryChoices : max_retries = [p \in Providers |-> m]
    /\ backoff = [p \in Providers |-> DefaultBackoff]
    /\ tasks = {}
    /\ nextTask = 1
    /\ hist = <<>>
    /\ processedBy = <<>>
    /\ rejected = 0
    /\ adminRetries = 0

\* tasks are dispatched only over a store of one event
OneEvent == Len(events) = 1

WebhookNext ==
    \/ \E payload \in Payloads, eid \in EventIds : Ingest(payload, eid)
    \/ \E i \in Rows : MarkProcessing(i)
    \/ \E i \in Rows : Handle(i)
    \/ \E i \in Rows : ScheduleRetry(i)
    \/ \E i \in Rows : AdminRetry(i)
    \/ OneEvent /\ RetryFailedWebhooks
    \/ \E provider \in PendingSweeps :
          OneEvent /\ ProcessPendingWebhooks(provider)
    \/ \E t \in tasks : RunTask(t)
    \/ \E i \in Rows : LookupAppears(i)
    \/ WebhookTick

SpecWebhook == WebhookInit /\ [][WebhookNext]_vars

----------------------------------------------------------------------------
(* WebhookEvent.schedule_retry() on its own: one stored event, the method    *)
(* called on it again and again, for every max_retries up to the default     *)

CallScheduleRetry(i) ==
    /\ LET r == schedule_retry(events[i], max_retries[events[i].provider], now)
       IN  Save(i, [r.ev EXCEPT !.response = retry_response(r.ok)])
    /\ UNCHANGED <<now, max_retries, backoff, tasks, nextTask, processedBy, rejected,
                   adminRetries>>
    /\ UNCHANGED <<breakerVars, clientVars>>

ClockTick ==
    /\ now < MaxClock
    /\ now' = now + 1
    /\ UNCHANGED <<webhookVars, clientVars>>
    /\ UNCHANGED <<breakerVars, clientVars>>

ScheduleRetryInit ==
    /\ now = 0
    /\ BreakerQuiet
    /\ ClientQuiet
    /\ \E payload \in Payloads :
          /\ events = <<[NewEvent(payload, "evt_1") EXCEPT !.stage = "done"]>>
          /\ hist = <<<<Seen(NewEvent(payload, "evt_1"))>>>>
    /\ \E m \in 0..DefaultMaxRetries : max_retries = [p \in Providers |-> m]
    /\ backoff = [p \in Providers |-> DefaultBackoff]
    /\ tasks = {}
    /\ nextTask = 1
    /\ processedBy = <<{}>>
    /\ rejected = 0
    /\ adminRetries = 0

ScheduleRetryNext ==
    \/ \E i \in Rows : CallScheduleRetry(i)
    \/ \E i \in Rows : AdminRetry(i)
    \/ ClockTick

SpecScheduleRetry == ScheduleRetryInit /\ [][ScheduleRetryNext]_vars

\* the same calls under other retry policies: backoff_multiplier is a
\* FloatField and max_backoff_seconds a PositiveIntegerField, neither with a
\* validator; the whole-number multipliers stand for them here
Multipliers == {0 - 2, 0, 1, 2, 3}

Caps == {0, 5, MaxBackoffSeconds}

BackoffInit ==
    /\ now = 0
    /\ BreakerQuiet
    /\ ClientQuiet
    /\ \E payload \in Payloads :
          /\ events = <<[NewEvent(payload, "evt_1") EXCEPT !.stage = "done"]>>
          /\ hist = <<<<Seen(NewEvent(payload, "evt_1"))>>>>
    /\ max_retries = [p \in Providers |-> DefaultMaxRetries]
    /\ \E m \in Multipliers, c \in Caps :
          backoff = [p \in Providers |-> [multiplier |-> m, max_backoff_seconds |-> c]]
    /\ tasks = {}
    /\ nextTask = 1
    /\ processedBy = <<{}>>
    /\ rejected = 0
    /\ adminRetries = 0

SpecBackoff == BackoffInit /\ [][ScheduleRetryNext]_vars

----------------------------------------------------------------------------
(* Properties of the circuit breaker *)

\* C1: starting from a closed breaker with failure_count 0, after N calls in a
\* row whose operation raised (none overlapping, no success, override or cache
\* expiry in between) the breaker is open if and only if N >= threshold.
C1_OpenIffThresholdFailures ==
    (run # Void /\ AllIdle(pc)) => (state = "open" <=> run >= Threshold)

C1_Witness ==
    run = Threshold /\ AllIdle(pc) /\ state = "open"

\* C2: a call that finds the breaker open with fewer than timeout seconds
\* elapsed since last_failure_time raises CircuitBreakerOpenError, has not
\* invoked the operation, and leaves the cached state, failure_count and
\* last_failure_time as they were.
C2_RejectedCallChangesNothing ==
    [][\A p \in Callers :
          ( /\ pc[p] = "reset" /\ pc'[p] # "reset"
            /\ state = "open"
            /\ now - last_failure_time < Timeout )
          => /\ result'[p] = "CircuitOpenError"
             /\ ~invoked'[p]
             /\ cache' = cache]_vars

C2_Witness ==
    \E p \in Callers :
        /\ pc[p] = "idle" /\ result[p] = "CircuitOpenError" /\ ~invoked[p]
        /\ state = "open" /\ now - last_failure_time < Timeout

\* a step of caller p's call that ends the call with outcome res
Ends(p, res) ==
    pc[p] # "idle" /\ pc'[p] = "idle" /\ result'[p] = res

\* what C3 says of the calls whose trial mark is in kinds
ProbeContract(kinds) ==
    \A p \in Callers :
        trial[p] \in kinds =>
            /\ (pc[p] = "reset" /\ pc'[p] # "reset") => pc'[p] = "sho_fc"
            /\ (pc[p] = "run" /\ pc'[p] # "run")
                  => (state = "half_open" /\ ~invoked[p])
            /\ Ends(p, "ok") => (state' = "closed" /\ failure_count' = 0)
            /\ Ends(p, "raised")
                  => (state' = "open" /\ last_failure_time' = now')
            /\ ~Ends(p, "CircuitOpenError")

\* C3 (as amended): for a breaker that opened, the next call (none
\* overlapping, no override) made at least timeout seconds after
\* last_failure_time while the cached entry has not expired, i.e. less than
\* 2 * timeout seconds after it was last written, also while the call runs,
\* first sets half_open and then invokes the operation once; a success leaves
\* closed with failure_count 0, a failure leaves open with last_failure_time
\* the time of that failure.
C3_ProbeBeforeExpiry ==
    [][ProbeContract({"probe"})]_vars

C3_Witness ==
    \E p \in Callers :
        /\ trial[p] = "probe" /\ pc[p] = "idle" /\ result[p] = "ok" /\ invoked[p]
        /\ state = "closed" /\ failure_count = 0

\* C3 (as claimed): the same for any delay of at least timeout seconds,
\* including a call that begins when the cached entry has already expired
\* (2 * timeout seconds or more after last_failure_time).
C3_ProbeAfterAnyDelay ==
    [][ProbeContract({"probe", "late"})]_vars

\* C4: in every reachable state, under any interleaving of concurrent calls,
\* force_open and force_close, state = open implies failure_count >= threshold.
\* (Stated for the states in which no override has been made at all and no
\* cache entry can have expired yet, now < TTL: calls alone then decide it.)
C4_OpenOnlyAtThreshold ==
    (overrides = 0 /\ now < TTL) => (state = "open" => failure_count >= Threshold)

\* C11: once the breaker is open, no step of any call (one already in flight
\* when it opened included) moves its state away from open while fewer than
\* timeout seconds have elapsed since last_failure_time; force_close and cache
\* expiry are not steps of a call.
C11_StaysOpenUntilTimeout ==
    [][( /\ state = "open"
         /\ now - last_failure_time < Timeout
         /\ now' = now
         /\ overrides' = overrides )
       => state' = "open"]_vars

\* caller q is the trial call of a half_open breaker: it began alone on an
\* open breaker whose timeout had elapsed, and has not returned yet
InTrial(q) ==
    trial[q] = "probe" /\ pc[q] \in {"run", "os1", "os_del", "os2", "os_set", "of1", "of2"}

\* C12: while the breaker is half_open and its trial call has not completed,
\* no other call gets to invoke its operation: a call that begins then is not
\* let through line 66 to func(*args, **kwargs) on line 73.
C12_OneTrialWhileHalfOpen ==
    [][\A p \in Callers :
          ( /\ pc[p] = "idle"
            /\ state = "half_open"
            /\ \E q \in Callers \ {p} : InTrial(q) )
          => pc'[p] # "run"]_vars

\* C18: once the IntegrationHealth record exists, whenever no call or
\* override is in progress its circuit_breaker_state equals the breaker's
\* state and is_healthy is true exactly when that state is closed, after any
\* calls, overrides and cache expiries (stated for histories in which no
\* write of the record has raised).
C18_HealthMirrorsState ==
    (AllIdle(pc) /\ health.exists /\ ~hwFailed)
    => /\ health.circuit_breaker_state = state
       /\ health.is_healthy = (state = "closed")

\* C19: whether or not the write of the IntegrationHealth record raises, and
\* whether or not the provider row exists, the steps of a call that tell the
\* record end as they do when the write succeeds: _set_half_open goes on to
\* the operation, _on_success returns the result, _on_failure re-raises the
\* operation's exception, and the cache entry written is the same.
C19_HealthFailureHarmless ==
    [][\A p \in Callers :
          /\ (pc[p] = "sho_set" /\ pc'[p] # "sho_set")
                => /\ pc'[p] = "run"
                   /\ cache' = half_open_entry(loc[p].fc, loc[p].lft, now)
          /\ (pc[p] = "os_del" /\ pc'[p] # "os_del")
                => /\ result'[p] = "ok"
                   /\ cache' = on_success_half_open(cache)
          /\ (pc[p] = "of2" /\ pc'[p] # "of2")
                => /\ result'[p] = "raised"
                   /\ cache' = on_failure(loc[p].cd, now)]_vars

C19_Witness ==
    /\ hwFailed
    /\ ~health.exists
    /\ overrides = 0
    /\ state = "open"
    /\ \E p \in Callers : pc[p] = "idle" /\ result[p] = "raised"

\* the entry under the key was written 2 * timeout seconds ago or earlier
Stale ==
    cache.present /\ now >= cache.written + TTL

\* C20: every write of breaker state carries an expiry of 2 * timeout seconds;
\* an entry not rewritten within that time is gone: state, failure_count and
\* last_failure_time read closed, 0 and none, and a call that begins is let
\* through to its operation, so an open or half_open breaker does not outlive
\* 2 * timeout seconds after its last write.
C20_EntryExpires ==
    /\ [](cache.present => cache.expires = cache.written + TTL)
    /\ [](Stale => /\ state = "closed"
                   /\ failure_count = 0
                   /\ last_failure_time = NoTime)
    /\ [][\A p \in Callers :
            (Stale /\ pc[p] = "idle" /\ pc'[p] # "idle") => pc'[p] = "run"]_vars

C20_Witness ==
    /\ Stale
    /\ cache.state = "open"
    /\ \E p \in Callers : pc[p] = "run"

----------------------------------------------------------------------------
(* Properties of the webhook event store *)

\* how many entries of a row's history carry the status st
Times(h, st) ==
    Cardinality({k \in 1..Len(h) : h[k].status = st})

\* row i has come to rest in failed by way of the retry sweep alone
FailedForGood(i) ==
    /\ events[i].status = "failed"
    /\ events[i].stage = "done"
    /\ adminRetries = 0
    /\ \A r \in processedBy[i] : r.origin = "retry"
    /\ \A t \in tasks : t.event # i

\* C5: an event whose handler fails on every invocation, with
\* provider.max_retries = M, is seen pending, processing, retry(1), processing,
\* ..., retry(M), processing, failed as the retry sweep re-submits it: once it
\* rests in failed it has been in processing M + 1 times, in retry M times,
\* and retry_count is M.
C5_RetryLadder ==
    \A i \in Rows :
        (HandlerOutcome(events[i]) = "not found" /\ FailedForGood(i))
        => /\ events[i].retry_count = max_retries[events[i].provider]
           /\ Times(hist[i], "retry") = max_retries[events[i].provider]
           /\ Times(hist[i], "processing") = max_retries[events[i].provider] + 1

\* C6: retry_count <= max_retries in every reachable state; a schedule_retry
\* call increments retry_count and returns true exactly while retry_count <
\* max_retries, and the call made at retry_count = max_retries returns false,
\* sets status failed with 'Max retries exceeded' and leaves retry_count as
\* it was.
C6_RetryCountBounded ==
    /\ [](\A i \in Rows : events[i].retry_count <= max_retries[events[i].provider])
    /\ [][\A i \in Rows :
            (events'[i] # events[i] /\ adminRetries' = adminRetries)
            => IF events[i].retry_count < max_retries[events[i].provider]
               THEN /\ events'[i].retry_count = events[i].retry_count + 1
                    /\ events'[i].status = "retry"
                    /\ events'[i].response = "retry_scheduled"
               ELSE /\ events'[i].retry_count = events[i].retry_count
                    /\ events'[i].status = "failed"
                    /\ events'[i].error_message = "Max retries exceeded"
                    /\ events'[i].response = "failed"]_vars

C6_Witness ==
    \E i \in Rows :
        /\ events[i].retry_count = DefaultMaxRetries
        /\ max_retries[events[i].provider] = DefaultMaxRetries
        /\ events[i].status = "failed"
        /\ events[i].error_message = "Max retries exceeded"
        /\ events[i].response = "failed"

\* C7: an inbound webhook of a known provider with an event_type the provider
\* does not handle goes pending -> processing -> failed: its status is never
\* retry, next_retry_at stays unset and retry_count stays 0.
C7_UnknownTypeFailsDirectly ==
    \A i \in Rows :
        HandlerOutcome(events[i]) = "Unknown event type"
        => /\ events[i].status \in {"pending", "processing", "failed"}
           /\ events[i].next_retry_at = NoTime
           /\ events[i].retry_count = 0

\* C8: the stored events have pairwise distinct event_id, and an ingestion
\* whose event_id is already stored creates no record, runs no handler and
\* leaves every stored event (status, retry_count, error_message) as it was.
C8_EventIdUnique ==
    /\ [](\A i, j \in Rows : i # j => events[i].event_id # events[j].event_id)
    /\ [][rejected' # rejected
            => /\ events' = events
               /\ hist' = hist
               /\ processedBy' = processedBy
               /\ tasks' = tasks]_vars

C8_Witness ==
    /\ rejected > 0
    /\ Len(events) > 1
    /\ \E i \in Rows : events[i].status = "completed"

\* C9: when two retry sweeps select the same event in status retry, at most
\* one of the resulting process_webhook_event tasks processes it per due
\* retry: the tasks of sweep origin that have run on a row never outnumber the
\* times the row was put in status retry.
C9_OneProcessPerDueRetry ==
    \A i \in Rows :
        Cardinality({r \in processedBy[i] : r.origin = "retry"})
            <= Times(hist[i], "retry")

\* C10: a process_webhook_event task that runs on an event whose status is
\* completed leaves the event as it is: status completed, retry_count,
\* error_message and processed_at unchanged.
C10_ProcessLeavesCompleted ==
    [][\A i \in Rows :
          ( /\ events[i].status = "completed"
            /\ tasks' # tasks
            /\ nextTask' = nextTask )
          => events'[i] = events[i]]_vars

\* C16: for every event and every retry policy the fields admit, the backoff
\* delay of a retry is at most max_backoff_seconds and is not smaller than
\* the delay of the event's previous retry.
C16_BackoffMonotoneAndCapped ==
    [][\A i \in 1..Len(events) :
          ( /\ Len(events') = Len(events)
            /\ events'[i].status = "retry"
            /\ events'[i].retry_count = events[i].retry_count + 1 )
          => /\ events'[i].next_retry_at - now = events'[i].delay
             /\ events'[i].delay <= backoff[events[i].provider].max_backoff_seconds
             /\ (events[i].retry_count >= 1
                    => events[i].delay <= events'[i].delay)]_vars

\* C17: when a task queued by the retry sweep for an event in status retry
\* ends its run on that event, and the type-specific handler succeeds for the
\* event's data, the event is left completed with processed_at stamped.
C17_RetriedEventCompletes ==
    [][\A t \in tasks :
          ( /\ t.origin = "retry"
            /\ events[t.event].status = "retry"
            /\ HandlerOutcome(events[t.event]) = "ok"
            /\ \A u \in tasks' : u.id # t.id )
          => /\ events'[t.event].status = "completed"
             /\ events'[t.event].processed_at = now]_vars

----------------------------------------------------------------------------
(* Outbound calls: ExternalAPIClient.make_request behind its decorator *)

\* wrapper(*args): self.circuit_breaker.call(func, ...) up to func
WrapperCall(c) ==
    /\ client[c].pc = "idle"
    /\ Len(api_calls) < MaxCalls
    /\ failures[c] < MaxFailures
    /\ LET g == gate(breakers[GateKey(c)], now)
       IN  /\ breakers' = [breakers EXCEPT ![GateKey(c)] = g.entry]
           /\ client' = [client EXCEPT ![c] =
                 IF g.admit
                 THEN [pc |-> "create", call |-> NoCall, result |-> "none"]
                 ELSE [pc |-> "idle", call |-> NoCall,
                       result |-> "CircuitBreakerOpenError"]]
    /\ UNCHANGED <<provider_rows, api_calls, failures>>
    /\ UNCHANGED <<now, breakerVars, webhookVars>>

\* make_request lines 34-41: ExternalAPICall.objects.create(provider=
\* self._get_provider(), ...); without a provider row the insert raises,
\* outside the try, and the breaker counts a failure
CreateCall(c) ==
    /\ client[c].pc = "create"
    /\ IF c \in provider_rows
       THEN /\ api_calls' = Append(api_calls, NewCall(c, now))
            /\ client' = [client EXCEPT ![c].pc = "mark",
                                        ![c].call = Len(api_calls) + 1]
            /\ UNCHANGED <<breakers, failures>>
       ELSE /\ breakers' = [breakers EXCEPT ![GateKey(c)] = after_failure(@, now)]
            /\ client' = [client EXCEPT ![c].pc = "idle",
                                        ![c].result = "raised"]
            /\ failures' = [failures EXCEPT ![c] = @ + 1]
            /\ UNCHANGED api_calls
    /\ UNCHANGED provider_rows
    /\ UNCHANGED <<now, breakerVars, webhookVars>>

\* line 44: api_call.mark_in_progress()
MarkInProgress(c) ==
    /\ client[c].pc = "mark"
    /\ api_calls' = [api_calls EXCEPT ![client[c].call] = call_mark_in_progress(@)]
    /\ client' = [client EXCEPT ![c].pc = "request"]
    /\ UNCHANGED <<breakers, provider_rows, failures>>
    /\ UNCHANGED <<now, breakerVars, webhookVars>>

Outcomes == {"ok", "HTTPError"}

\* lines 47-67: the request returns or raises; mark_completed / mark_failed;
\* then the breaker's _on_success / _on_failure
Respond(c, outcome) ==
    /\ client[c].pc = "request"
    /\ api_calls' = [api_calls EXCEPT ![client[c].call] =
                        finish_request(@, outcome, now)]
    /\ breakers' = [breakers EXCEPT ![GateKey(c)] =
                       IF outcome = "ok" THEN after_success(@, now)
                       ELSE after_failure(@, now)]
    /\ client' = [client EXCEPT ![c].pc = "idle",
                                ![c].result = IF outcome = "ok" THEN "ok"
                                              ELSE "raised"]
    /\ failures' = [failures EXCEPT ![c] = IF outcome = "ok" THEN @ ELSE @ + 1]
    /\ UNCHANGED provider_rows
    /\ UNCHANGED <<now, breakerVars, webhookVars>>

\* the caller is cancelled while session.request is in flight: what is
\* raised into it (KeyboardInterrupt, SystemExit, GeneratorExit: BaseException)
\* passes make_request's "except Exception" (line 63) and CircuitBreaker.call's
\* (line 76), or the worker process is killed; no line of either runs again
Abandon(c) ==
    /\ client[c].pc = "request"
    /\ client' = [client EXCEPT ![c].pc = "idle", ![c].result = "abandoned"]
    /\ UNCHANGED <<breakers, provider_rows, api_calls, failures>>
    /\ UNCHANGED <<now, breakerVars, webhookVars>>

ClientTick ==
    /\ now < MaxTime
    /\ now' = now + 1
    /\ UNCHANGED <<breakerVars, webhookVars, clientVars>>

ClientInit ==
    /\ now = 0
    /\ BreakerQuiet
    /\ WebhookQuiet
    /\ breakers = [k \in BreakerKeys |-> Absent]
    /\ provider_rows \in {ClientProviders, {"payment_service"}}
    /\ api_calls = <<>>
    /\ client = [c \in ClientProviders |-> IdleClient]
    /\ failures = [c \in ClientProviders |-> 0]

ClientNext ==
    \/ \E c \in ClientProviders : WrapperCall(c)
    \/ \E c \in ClientProviders : CreateCall(c)
    \/ \E c \in ClientProviders : MarkInProgress(c)
    \/ \E c \in ClientProviders, outcome \in Outcomes : Respond(c, outcome)
    \/ \E c \in ClientProviders : Abandon(c)
    \/ ClientTick

SpecClient == ClientInit /\ [][ClientNext]_vars

----------------------------------------------------------------------------
(* Properties of the outbound calls *)

\* the breaker that gates client c, as a Call of c reads it
GateState(c) == state_of(cache_get_at(breakers[GateKey(c)], now))

GateFailureCount(c) == failure_count_of(cache_get_at(breakers[GateKey(c)], now))

\* C13: the breaker is per provider: a request of one client that raises
\* changes neither the state nor the failure_count of the breaker before
\* another provider's client, and a client is never refused with
\* CircuitBreakerOpenError when none of its own requests has raised.
C13_BreakerPerProvider ==
    /\ [](\A c \in ClientProviders :
             client[c].result = "CircuitBreakerOpenError" => failures[c] > 0)
    /\ [][\A a \in ClientProviders : \A b \in ClientProviders \ {a} :
             failures'[a] > failures[a]
             => /\ GateState(b)' = GateState(b)
                /\ GateFailureCount(b)' = GateFailureCount(b)]_vars

CallLifecycles ==
    {<<"pending">>, <<"pending", "in_progress">>,
     <<"pending", "in_progress", "completed">>,
     <<"pending", "in_progress", "failed">>}

FinalCallStatuses == {"completed", "failed"}

\* C14: every ExternalAPICall row is saved pending, then in_progress, then
\* with exactly one of completed and failed, in this order; once it is
\* completed or failed, its status, completed_at and duration_ms are never
\* written again.
C14_CallLifecycle ==
    /\ [](\A i \in 1..Len(api_calls) :
             /\ api_calls[i].writes \in CallLifecycles
             /\ api_calls[i].status = api_calls[i].writes[Len(api_calls[i].writes)]
             /\ (api_calls[i].status \in FinalCallStatuses)
                   = (api_calls[i].completed_at # NoTime))
    /\ [][\A i \in 1..Len(api_calls) :
             api_calls[i].status \in FinalCallStatuses
             => /\ api_calls'[i].status = api_calls[i].status
                /\ api_calls'[i].completed_at = api_calls[i].completed_at
                /\ api_calls'[i].duration_ms = api_calls[i].duration_ms
                /\ api_calls'[i].writes = api_calls[i].writes]_vars

\* a completed row and a failed row, both finished earlier, and a third
\* request under way
C14_Witness ==
    /\ Len(api_calls) = MaxCalls
    /\ \E i, j, k \in 1..Len(api_calls) :
          /\ api_calls[i].status = "completed" /\ api_calls[i].completed_at < now
          /\ api_calls[j].status = "failed" /\ api_calls[j].completed_at < now
          /\ api_calls[k].status = "in_progress"

\* raise CircuitBreakerOpenError(f"Circuit breaker is open for {provider_name}")
CircuitOpenMessage == "Circuit breaker is open for external_api"

\* C15: when a client's request is refused because the breaker is open, an
\* ExternalAPICall row of that request exists and is failed with the
\* circuit-open message.
C15_RejectionRecorded ==
    \A c \in ClientProviders :
        client[c].result = "CircuitBreakerOpenError"
        => /\ client[c].call # NoCall
           /\ api_calls[client[c].call].status = "failed"
           /\ api_calls[client[c].call].error_message = CircuitOpenMessage

----------------------------------------------------------------------------
(* Properties of the retry schedule, continued *)

\* C30: a schedule_retry call that succeeds sets next_retry_at to now +
\* min(backoff_multiplier ^ r, max_backoff_seconds), r being the retry_count
\* after the increment: the first retry waits backoff_multiplier ^ 1 seconds.
C30_BackoffFormula ==
    [][\A i \in 1..Len(events) :
          ( /\ Len(events') = Len(events)
            /\ events'[i].status = "retry"
            /\ events'[i].retry_count = events[i].retry_count + 1 )
          => LET r == events'[i].retry_count
                 m == backoff[events[i].provider].multiplier
                 cap == backoff[events[i].provider].max_backoff_seconds
             IN  /\ events'[i].next_retry_at =
                       now + (IF Pow(m, r) <= cap THEN Pow(m, r) ELSE cap)
                 /\ (r = 1 /\ m <= cap => events'[i].next_retry_at = now + m)]_vars

\* a second retry whose delay was cut to max_backoff_seconds, scheduled after
\* the clock had moved
C30_Witness ==
    \E i \in 1..Len(events) :
        /\ events[i].status = "retry"
        /\ events[i].retry_count = 2
        /\ backoff[events[i].provider].multiplier = 3
        /\ backoff[events[i].provider].max_backoff_seconds = 5
        /\ events[i].next_retry_at > 5
        /\ events[i].delay = 5

----------------------------------------------------------------------------
(* The retry sweep and the tasks it queues, over a store that holds rows in  *)
(* every status, some of a provider whose name is none of PROVIDER_CHOICES   *)
(* (the choices of IntegrationProvider.name are not enforced by save())      *)

UnknownProvider == "legacy_service"

SweepProviders == {"user_service", UnknownProvider}

Statuses == {"pending", "processing", "completed", "failed", "retry"}

\* a stored row: its status, and the next_retry_at an earlier schedule_retry
\* left on it
SweepRows ==
    {[NewEvent([provider |-> p, event_type |-> "user.updated", found |-> FALSE],
               "evt_1")
        EXCEPT !.status = st, !.retry_count = 1, !.next_retry_at = d,
               !.delay = 2, !.stage = "done"] :
     p \in SweepProviders, st \in Statuses, d \in {1, 3}}

SweepInit ==
    /\ now = 0
    /\ BreakerQuiet
    /\ ClientQuiet
    /\ \E r1 \in SweepRows, r2 \in SweepRows :
          /\ events = <<r1, [r2 EXCEPT !.event_id = "evt_2"]>>
          /\ hist = <<<<Seen(r1)>>, <<Seen(r2)>>>>
    /\ max_retries = [p \in Providers \cup SweepProviders |-> DefaultMaxRetries]
    /\ backoff = [p \in Providers \cup SweepProviders |-> DefaultBackoff]
    /\ tasks = {}
    /\ nextTask = 1
    /\ processedBy = <<{}, {}>>
    /\ rejected = 0
    /\ adminRetries = 0

SweepNext ==
    \/ RetryFailedWebhooks
    \/ \E t \in tasks : RunTask(t)
    \/ ClockTick

SpecSweep == SweepInit /\ [][SweepNext]_vars

\* C21: a process_webhook_event run on an event whose provider name is none
\* of the known ones marks it failed with the unknown-provider error, calls
\* no handler, leaves retry_count and next_retry_at as they were, and leaves
\* no run of that task queued.
C21_UnknownProviderFails ==
    [][\A t \in tasks :
          ( /\ events[t.event].provider \notin Providers
            /\ t.eta <= now
            /\ tasks' # tasks
            /\ nextTask' = nextTask
            /\ \A u \in tasks \ {t} : u \in tasks' )
          => /\ tasks' = tasks \ {t}
             /\ events'[t.event].status = "failed"
             /\ events'[t.event].error_message = "Unknown provider"
             /\ events'[t.event].processed_at = now
             /\ events'[t.event].retry_count = events[t.event].retry_count
             /\ events'[t.event].next_retry_at = events[t.event].next_retry_at
             /\ processedBy' = processedBy]_vars

C21_Witness ==
    \E i \in Rows :
        /\ events[i].provider = UnknownProvider
        /\ events[i].status = "failed"
        /\ events[i].error_message = "Unknown provider"
        /\ events[i].retry_count = 1
        /\ hist[i] = <<[status |-> "retry", retry_count |-> 1],
                       [status |-> "failed", retry_count |-> 1]>>
        /\ \A t \in tasks : t.event # i

\* C22: a run of retry_failed_webhooks queues one process_webhook_event task
\* for each event with status retry and next_retry_at <= now and for no
\* other event, and changes no event.
C22_SweepSelectsDueRetries ==
    [][nextTask' > nextTask
          => /\ events' = events
             /\ hist' = hist
             /\ tasks \subseteq tasks'
             /\ {t.event : t \in tasks' \ tasks} =
                   {i \in Rows : /\ events[i].status = "retry"
                                 /\ events[i].next_retry_at <= now}
             /\ Cardinality(tasks' \ tasks) = nextTask' - nextTask
             /\ nextTask' - nextTask =
                   Cardinality({i \in Rows : /\ events[i].status = "retry"
                                             /\ events[i].next_retry_at <= now})
             /\ \A t \in tasks' \ tasks : t.retries = 0 /\ t.eta = now]_vars

\* a sweep has just queued the one due event and passed over a row in status
\* retry that is not due yet
C22_Witness ==
    /\ Len(events) = 2
    /\ \E t \in tasks : t.retries = 0 /\ t.eta = now /\ t.origin = "retry"
    /\ \E i, j \in Rows :
          /\ events[i].status = "retry" /\ events[i].next_retry_at <= now
          /\ \E t \in tasks : t.event = i
          /\ events[j].status = "retry" /\ events[j].next_retry_at > now
          /\ \A t \in tasks : t.event # j

----------------------------------------------------------------------------
(* Properties of the circuit breaker, continued *)

\* C23: when func raises in a call that was let through (no call overlapping,
\* no override, the cached entry not expiring meanwhile), the call ends by
\* raising that exception, failure_count is one more than before, and the
\* state is open if the new count is >= threshold or the state was half_open,
\* and closed otherwise.
C23_FailureCountsOnce ==
    [][\A p \in Callers :
          ( /\ pc[p] = "of2" /\ pc'[p] = "idle"
            /\ run # Void /\ run' # Void )
          => /\ result'[p] = "raised"
             /\ invoked[p]
             /\ failure_count' = failure_count + 1
             /\ last_failure_time' = now
             /\ IF failure_count' >= Threshold \/ state = "half_open"
                THEN state' = "open"
                ELSE state' = "closed" /\ state = "closed"]_vars

\* a failing trial call has reopened the breaker: threshold failures opened
\* it, and the trial's failure was counted once more
C23_Witness ==
    /\ run = Threshold + 1
    /\ AllIdle(pc)
    /\ state = "open"
    /\ failure_count = Threshold + 1
    /\ last_failure_time = now
    /\ now >= Timeout
    /\ \E p \in Callers : result[p] = "raised" /\ trial[p] = "probe"

\* C24 (as first stated): for calls that do not overlap, failure_count in the
\* closed state equals the number of failing calls since the most recent
\* successful call.
C24_CountSinceLastSuccess ==
    (streak # Void /\ AllIdle(pc) /\ state = "closed") => failure_count = streak

\* C24 (as amended): a successful call in the closed state writes
\* failure_count 0; for calls that do not overlap, failure_count in the closed
\* state equals the number of failing calls since the most recent successful
\* call or, if later, since the cached entry last expired, and is never more
\* than the number since the most recent successful call; and the breaker is
\* never open with fewer than threshold failing calls in a row.
C24_CountSinceSuccessOrExpiry ==
    /\ [][\A p \in Callers :
             (pc[p] = "os_set" /\ pc'[p] = "idle")
             => /\ result'[p] = "ok"
                /\ state' = "closed"
                /\ failure_count' = 0]_vars
    /\ []((run # Void /\ AllIdle(pc) /\ state = "closed")
             => failure_count = run /\ run < Threshold)
    /\ []((streak # Void /\ AllIdle(pc) /\ state = "closed")
             => failure_count <= streak)
    /\ []((streak # Void /\ AllIdle(pc) /\ state = "open")
             => streak >= Threshold)

\* a success has reset the count and one failing call has followed
C24_Witness ==
    /\ AllIdle(pc)
    /\ state = "closed"
    /\ streak = 1
    /\ run = 1
    /\ failure_count = 1
    /\ \E p, q \in Callers : result[p] = "ok" /\ result[q] = "raised"

----------------------------------------------------------------------------
(* Properties of the outbound calls, continued *)

\* the make_request call that created row i is still running
InFlight(i) ==
    \E c \in ClientProviders : client[c].pc = "request" /\ client[c].call = i

\* C25: no ExternalAPICall row stays in_progress for ever, also when the
\* caller is cancelled during the request: a row is in_progress only while
\* its make_request call is running (nothing else writes the row), and a
\* cancelled call leaves its row failed.
C25_NoCallStuckInProgress ==
    \A i \in 1..Len(api_calls) :
        api_calls[i].status = "in_progress" => InFlight(i)

StatusKey(c) == c

\* the state, failure_count and last_failure_time the view reports for a provider
circuit_breaker_status(c) ==
    LET cd == cache_get_at(breakers[StatusKey(c)], now)
    IN  [state |-> state_of(cd), failure_count |-> failure_count_of(cd),
         last_failure_time |-> last_failure_time_of(cd)]

\* the same three values of the breaker that admits or rejects the provider's
\* outbound calls
gate_status(c) ==
    LET cd == cache_get_at(breakers[GateKey(c)], now)
    IN  [state |-> state_of(cd), failure_count |-> failure_count_of(cd),
         last_failure_time |-> last_failure_time_of(cd)]

\* C27: the circuit-breaker status the administrative view reports for a
\* provider is the state of the breaker that gates the outbound calls to that
\* provider
C27_StatusIsTheGate ==
    \A c \in provider_rows : circuit_breaker_status(c) = gate_status(c)

\* the entry force_open wrote is the one cached, and fewer than Timeout
\* seconds have passed since it was written
ForcedOpenStands ==
    /\ forced = "open"
    /\ cache.present
    /\ cache = force_open_entry(cache.last_failure_time)
    /\ now - cache.last_failure_time < Timeout

\* force_close's delete is what a get finds: nothing
ForcedClosedStands ==
    /\ forced = "closed"
    /\ cache = Absent

\* C28: force_open, whatever was cached, leaves state open, failure_count =
\* threshold and last_failure_time = now, and while that entry is the one
\* cached a call that begins less than timeout seconds later is rejected with
\* CircuitBreakerOpenError without the operation being invoked; force_close,
\* whatever was cached, leaves nothing cached, so that state, failure_count
\* and last_failure_time read closed, 0 and none and a call that begins then
\* goes on to the operation.
C28_Overrides ==
    /\ [][ (overrides' # overrides /\ forced' = "open")
              => /\ state' = "open"
                 /\ failure_count' = Threshold
                 /\ last_failure_time' = now ]_vars
    /\ [][ \A p \in Callers :
              (ForcedOpenStands /\ pc[p] = "idle" /\ pc'[p] # "idle")
                  => pc'[p] = "reset" ]_vars
    /\ [][ \A p \in Callers :
              (ForcedOpenStands /\ pc[p] = "reset" /\ pc'[p] # "reset")
                  => /\ pc'[p] = "idle"
                     /\ result'[p] = "CircuitOpenError"
                     /\ ~invoked'[p] ]_vars
    /\ [][ (overrides' # overrides /\ forced' = "closed")
              => /\ cache' = Absent
                 /\ state' = "closed"
                 /\ failure_count' = 0
                 /\ last_failure_time' = NoTime ]_vars
    /\ [][ \A p \in Callers :
              (ForcedClosedStands /\ pc[p] = "idle" /\ pc'[p] # "idle")
                  => pc'[p] = "run" ]_vars

\* force_open was made on a breaker that read closed with a failure counted,
\* and a call that began a second later has been rejected
C28_Witness ==
    /\ ForcedOpenStands
    /\ now = cache.last_failure_time + 1
    /\ \E p \in Callers :
          /\ result[p] = "CircuitOpenError"
          /\ pc[p] = "idle"
          /\ \A q \in Callers \ {p} : result[q] = "raised" /\ pc[q] = "idle"

\* C29: whenever a transition of the breaker to open is written to the
\* IntegrationHealth record, the consecutive_failures written equals the
\* breaker's failure_count after that transition (so it is at least the
\* threshold when the breaker opened by reaching it).
C29_RecordedCountIsCurrent ==
    [][ (health' # health /\ health'.circuit_breaker_state = "open")
          => health'.consecutive_failures = failure_count' ]_vars

\* C31: when a webhook request finishes, the status it returns matches the
\* event as stored: success exactly when the event is completed,
\* retry_scheduled exactly when it is in status retry with next_retry_at set,
\* failed exactly when it is in status failed with no retry scheduled.
C31_ResponseMatchesEvent ==
    [][ \A i \in Rows :
          (events[i].stage # "done" /\ events'[i].stage = "done")
              => LET e == events'[i]
                 IN  /\ e.response \in {"success", "retry_scheduled", "failed"}
                     /\ (e.response = "success") = (e.status = "completed")
                     /\ (e.response = "retry_scheduled")
                           = (e.status = "retry" /\ e.next_retry_at # NoTime)
                     /\ (e.response = "failed")
                           = (e.status = "failed" /\ e.next_retry_at = NoTime) ]_vars

\* two requests have finished: one was answered success, the other
\* retry_scheduled or failed
C31_Witness ==
    /\ Len(events) = 2
    /\ \A i \in Rows : events[i].stage = "done"
    /\ \E i \in Rows : events[i].response = "success"
    /\ \E i \in Rows : events[i].response \in {"retry_scheduled", "failed"}

\* C32: the administrative retry acts only on failed events: a failed event
\* is left pending with retry_count 0 and an empty error_message; on an event
\* in any other status the view answers with an error and every field of the
\* event is as it was.  No other event is touched.
C32_AdminRetryOnlyFailed ==
    [][ adminRetries' # adminRetries
          => \E i \in Rows :
                /\ \A j \in Rows \ {i} : events'[j] = events[j]
                /\ Len(events') = Len(events)
                /\ IF events[i].status = "failed"
                   THEN /\ events'[i].status = "pending"
                        /\ events'[i].retry_count = 0
                        /\ events'[i].error_message = ""
                        /\ events'[i].admin_response = "queued"
                   ELSE /\ events'[i].admin_response = "error"
                        /\ [events'[i] EXCEPT !.admin_response =
                                                 events[i].admin_response]
                              = events[i] ]_vars

\* the retry endpoint has been called on an event waiting in status retry and
\* has answered with the error
C32_Witness ==
    \E i \in Rows :
        /\ events[i].admin_response = "error"
        /\ events[i].status = "retry"
        /\ events[i].retry_count = 1
        /\ adminRetries = 1

----------------------------------------------------------------------------
(* The retry endpoint and the periodic tasks over one stored event, of any   *)
(* provider and in any status                                                *)

\* a stored row of one of the three providers, as an earlier request left it
AdminRows ==
    {[NewEvent([provider |-> p, event_type |-> "order.shipped", found |-> FALSE],
               "evt_1")
        EXCEPT !.status = st, !.retry_count = 1, !.next_retry_at = 1,
               !.delay = 2, !.stage = "done"] :
     p \in Providers, st \in Statuses}

AdminInit ==
    /\ now = 0
    /\ BreakerQuiet
    /\ ClientQuiet
    /\ \E r1 \in AdminRows :
          /\ events = <<r1>>
          /\ hist = <<<<Seen(r1)>>>>
    /\ max_retries = [p \in Providers |-> DefaultMaxRetries]
    /\ backoff = [p \in Providers |-> DefaultBackoff]
    /\ tasks = {}
    /\ nextTask = 1
    /\ processedBy = <<{}>>
    /\ rejected = 0
    /\ adminRetries = 0

AdminNext ==
    \/ \E i \in Rows : AdminRetry(i)
    \/ RetryFailedWebhooks
    \/ \E provider \in PendingSweeps : ProcessPendingWebhooks(provider)
    \/ \E t \in tasks : RunTask(t)
    \/ ClockTick

SpecAdmin == AdminInit /\ [][AdminNext]_vars

\* some periodic task's filter selects the row, so that its next run submits
\* the event to process_webhook_event
SelectedBySomeSweep(row) ==
    \/ due_for_retry(row, now)
    \/ \E provider \in PendingSweeps : pending_selected(row, provider)

\* C33: an event that the administrative retry has put back to pending is
\* submitted to process_webhook_event again, whatever its provider: while it
\* waits in status pending, a periodic task selects it.
C33_ResetEventIsResubmitted ==
    \A i \in Rows :
        (events[i].admin_response = "queued" /\ events[i].status = "pending")
            => SelectedBySomeSweep(events[i])

----------------------------------------------------------------------------
(* One ingested event, from the moment its row is created, with no           *)
(* administrator: the request goes on, the retry sweep and the queued tasks  *)
(* keep running, time passes                                                 *)

\* time passes until the next instant at which something becomes due; the
\* queue empties after finitely many such instants, so no horizon is needed
LiveTick ==
    /\ \E d \in Deadlines :
          /\ d > now
          /\ \A e \in Deadlines : e > now => d <= e
          /\ now' = d
    /\ UNCHANGED <<webhookVars, clientVars>>
    /\ UNCHANGED <<breakerVars, clientVars>>

LiveInit ==
    /\ now = 0
    /\ BreakerQuiet
    /\ ClientQuiet
    /\ \E payload \in Payloads :
          /\ events = <<NewEvent(payload, "evt_1")>>
          /\ hist = <<<<Seen(NewEvent(payload, "evt_1"))>>>>
    /\ \E m \in RetryChoices : max_retries = [p \in Providers |-> m]
    /\ backoff = [p \in Providers |-> DefaultBackoff]
    /\ tasks = {}
    /\ nextTask = 1
    /\ processedBy = <<{}>>
    /\ rejected = 0
    /\ adminRetries = 0

LiveNext ==
    \/ \E i \in Rows : MarkProcessing(i)
    \/ \E i \in Rows : Handle(i)
    \/ \E i \in Rows : ScheduleRetry(i)
    \/ RetryFailedWebhooks
    \/ \E provider \in PendingSweeps :
          \* of the MaxTasks tasks of the model, one is left to the retry sweep
          /\ nextTask < MaxTasks
          /\ ProcessPendingWebhooks(provider)
    \/ \E t \in tasks : RunTask(t)
    \/ LiveTick

SpecLive ==
    /\ LiveInit
    /\ [][LiveNext]_vars
    /\ WF_vars(\E i \in Rows : MarkProcessing(i))
    /\ WF_vars(\E i \in Rows : Handle(i))
    /\ WF_vars(\E i \in Rows : ScheduleRetry(i))
    /\ WF_vars(RetryFailedWebhooks)
    /\ WF_vars(\E t \in tasks : RunTask(t))
    /\ WF_vars(LiveTick)

Terminal(i) ==
    events[i].status \in {"completed", "failed"}

\* C34: with no administrator, and the retry sweep and the queued
\* process_webhook_event tasks kept running, every ingested event comes to a
\* terminal status, completed or failed, and is never again in status
\* pending, processing or retry.  (Inside the ingress request the row is
\* saved as failed by mark_failed just before schedule_retry saves it as
\* retry: the second conjunct speaks of rows whose request has returned.)
C34_EventuallyTerminal ==
    /\ <>[]Terminal(1)
    /\ [][\A i \in Rows : (events[i].stage = "done" /\ Terminal(i))
                            => Terminal(i)']_vars

\* the event went through status retry and the sweep's task has left it failed
C34_Witness ==
    /\ events[1].status = "failed"
    /\ events[1].retry_count = 1
    /\ \E r \in processedBy[1] : r.origin = "retry"
    /\ tasks = {}

----------------------------------------------------------------------------
(* The task's own retry bound                                                *)

\* the delays, in seconds, before the first, second and third re-attempt
TaskDelays == <<1, 2, 4>>

MaxRetriesExceeded ==
    "Max retries exceeded: 'NoneType' object has no attribute 'META'"

\* the step is an execution of task t in which the handler raised
TaskFailedAttempt(t) ==
    /\ t \in tasks
    /\ t \notin tasks'
    /\ known_provider(events[t.event])

\* C35: a process_webhook_event task whose handler raises on every attempt
\* is re-attempted at most 3 times, 1, 2 and 4 seconds after the failed
\* attempt, the event being left as it is; the 4th failed attempt queues
\* nothing and marks the event failed with 'Max retries exceeded'.  The
\* bound is 3 whatever the provider's max_retries and the event's
\* retry_count.
C35_TaskRetryBound ==
    [][\A t \in tasks :
          /\ t.retries <= 3
          /\ TaskFailedAttempt(t) =>
                IF t.retries < 3
                THEN /\ \E u \in tasks' :
                          /\ u.id = t.id
                          /\ u.event = t.event
                          /\ u.retries = t.retries + 1
                          /\ u.eta = now + TaskDelays[t.retries + 1]
                     /\ events' = events
                ELSE /\ \A u \in tasks' : u.id # t.id
                     /\ events'[t.event].status = "failed"
                     /\ events'[t.event].error_message = MaxRetriesExceeded
                     /\ events'[t.event].retry_count = events[t.event].retry_count]_vars

\* a task has given up on an event whose provider allows no retry at all,
\* and on one whose retry_count was 1 of 3
C35_Witness ==
    \E i \in Rows :
        /\ events[i].status = "failed"
        /\ events[i].error_message = MaxRetriesExceeded
        /\ \/ max_retries[events[i].provider] = 0
           \/ events[i].retry_count = 1

----------------------------------------------------------------------------
(* Deletion of stored events: cleanup_old_webhook_events (tasks.py) and the  *)
(* cascade from IntegrationProvider (models.py line 68, urls.py line 12).    *)
(* The rows of this section carry two more columns: received_at, and whether *)
(* the row has been deleted                                                  *)

Days(n) == n * 86400

\* a stored row whose request has returned, received on day d
StoredRows(eid) ==
    {[NewEvent([provider |-> p, event_type |-> "order.shipped", found |-> FALSE],
               eid)
        EXCEPT !.status = st, !.stage = "done"]
       @@ [received_at |-> Days(d), deleted |-> FALSE] :
     p \in Providers, st \in Statuses, d \in {0, 1, RetentionDays}}

Stored == {i \in Rows : ~events[i].deleted}

Delete(S) ==
    events' = [i \in Rows |->
                  IF i \in S THEN [events[i] EXCEPT !.deleted = TRUE]
                  ELSE events[i]]

\* filter(received_at__lt=cutoff_date, status__in=['completed', 'failed'])
\* with cutoff_date = timezone.now() - timedelta(days=30)
cleanup_selected(row, t) ==
    /\ row.received_at < t - Days(RetentionDays)
    /\ row.status \in {"completed", "failed"}

\* cleanup_old_webhook_events()
CleanupOldWebhookEvents ==
    /\ Delete({i \in Stored : cleanup_selected(events[i], now)})
    /\ UNCHANGED <<now, max_retries, backoff, tasks, nextTask, hist, processedBy,
                   rejected, adminRetries>>
    /\ UNCHANGED <<breakerVars, clientVars>>

\* DELETE providers/<pk>/ : IntegrationProviderViewSet.destroy; the
\* provider's events go with it, provider = ForeignKey(on_delete=CASCADE)
\* (so do its api calls and health row, of which this section stores none)
DestroyProvider(p) ==
    /\ p \in provider_rows
    /\ provider_rows' = provider_rows \ {p}
    /\ Delete({i \in Stored : events[i].provider = p})
    /\ UNCHANGED <<now, max_retries, backoff, tasks, nextTask, hist, processedBy,
                   rejected, adminRetries>>
    /\ UNCHANGED <<breakerVars, breakers, api_calls, client, failures>>

\* a day passes
DayTick ==
    /\ now < Days(MaxDay)
    /\ now' = now + Days(1)
    /\ UNCHANGED <<webhookVars, clientVars>>
    /\ UNCHANGED <<breakerVars, clientVars>>

CleanupInit ==
    /\ now = Days(RetentionDays)
    /\ BreakerQuiet
    /\ breakers = [k \in BreakerKeys |-> Absent]
    /\ provider_rows = Providers
    /\ api_calls = <<>>
    /\ client = [c \in ClientProviders |-> IdleClient]
    /\ failures = [c \in ClientProviders |-> 0]
    /\ \E r1 \in StoredRows("evt_1"), r2 \in StoredRows("evt_2") :
          /\ events = <<r1, r2>>
          /\ hist = <<<<Seen(r1)>>, <<Seen(r2)>>>>
    /\ max_retries = [p \in Providers |-> DefaultMaxRetries]
    /\ backoff = [p \in Providers |-> DefaultBackoff]
    /\ tasks = {}
    /\ nextTask = 1
    /\ processedBy = <<{}, {}>>
    /\ rejected = 0
    /\ adminRetries = 0

CleanupNext ==
    \/ CleanupOldWebhookEvents
    \/ \E p \in Providers : DestroyProvider(p)
    \/ \E i \in Stored : AdminRetry(i)
    \/ DayTick

SpecCleanup == CleanupInit /\ [][CleanupNext]_vars

=============================================================================
